---- MODULE Spec2Model ----
(***************************************************************************)
(* StackIt: the engagement handlers of the three Flask backends            *)
(* (python_app.py, python_backend/app.py, python_full_app.py) over the     *)
(* relational store: questions, answers, votes, notifications.             *)
(*                                                                         *)
(* A table is a sequence of rows; a row's id is its index (autoincrement   *)
(* primary key, rows are never deleted by any handler).  NULL is 0: ids    *)
(* start at 1, and Python's truthiness tests ("if question_id:") treat     *)
(* None and 0 alike.                                                       *)
(***************************************************************************)
EXTENDS Integers, Sequences, FiniteSets, TLC

(* ---- bounds of the model ---- *)
MaxAnswers == 2
MaxVotes == 2
MaxNotifications == 2
MaxServed == 1
MaxViewed == 2

NULL == 0

Apps == {"python_app", "python_backend", "python_full_app"}
FULL == "python_full_app"

Users == {1, 2}
QuestionIds == {1, 2}
AnswerIds == 1..MaxAnswers
VoteTypes == {"up", "down"}

VARIABLES
    app,            \* which backend serves the store (fixed at start-up)
    questions,      \* table questions: author_id, vote_score, accepted_answer_id
    answers,        \* table answers: question_id, author_id, vote_score, is_accepted
    votes,          \* table votes: user_id, question_id, answer_id, vote_type
    notifications,  \* table notifications: user_id, type, question_id, answer_id, is_read
    last,           \* the last request served: its handler, its response, what it found
    txn             \* per worker: the request in flight and what its session has loaded

vars == <<app, questions, answers, votes, notifications, last, txn>>

db == [questions |-> questions, answers |-> answers,
       votes |-> votes, notifications |-> notifications]

(* ---- rows ---- *)
Question(author_id) ==
    [author_id |-> author_id, vote_score |-> 0, view_count |-> 0,
     accepted_answer_id |-> NULL]

Answer(question_id, author_id) ==
    [question_id |-> question_id, author_id |-> author_id,
     vote_score |-> 0, is_accepted |-> FALSE]

Vote(user_id, question_id, answer_id, vote_type) ==
    [user_id |-> user_id, question_id |-> question_id,
     answer_id |-> answer_id, vote_type |-> vote_type]

Notification(user_id, type, question_id, answer_id) ==
    [user_id |-> user_id, type |-> type, question_id |-> question_id,
     answer_id |-> answer_id, is_read |-> FALSE]

(* ---- responses ---- *)
\* python_app / python_backend answer with an HTTP status; python_full_app
\* answers accept_answer with a flashed message and a redirect.
Forbidden(ap) == IF ap = FULL THEN "302:error" ELSE "403"
Accepted(ap) == IF ap = FULL THEN "302:success" ELSE "200"
IsForbidden(status) == status \in {"403", "302:error"}
IsSuccess(status) == status \in {"200", "302:success"}

(* ---- users: registered before any request of the model (register is not modelled) ---- *)
Usernames == <<"alice", "bob", "carol", "dave">>

\* User.query.filter_by(username=username).first(): the user's id, or NULL
UserByUsername(username) ==
    IF \E u \in Users : Usernames[u] = username
    THEN CHOOSE u \in Users : Usernames[u] = username
    ELSE NULL

(* ---- answer content: a sequence of tokens, plain words and @word mentions ---- *)
Word(word) == [at |-> FALSE, word |-> word]
Mention(word) == [at |-> TRUE, word |-> word]

\* (mutant) a name mentioned twice is kept once
RECURSIVE Mentions_distinct(_)
Mentions_distinct(content) ==
    IF content = <<>> THEN <<>>
    ELSE LET rest == Mentions_distinct(Tail(content))
         IN IF Head(content).at /\ \A i \in DOMAIN rest : rest[i] # Head(content).word
            THEN <<Head(content).word>> \o rest
            ELSE rest

\* re.findall(r'@(\w+)', content): the names after each @, in order, repeats kept
RECURSIVE Mentions(_)
Mentions(content) ==
    IF content = <<>> THEN <<>>
    ELSE IF Head(content).at
         THEN <<Head(content).word>> \o Mentions(Tail(content))
         ELSE Mentions(Tail(content))

\* the characters of the content: its tokens joined by single spaces
RECURSIVE ContentLength(_)
ContentLength(content) ==
    IF content = <<>> THEN 0
    ELSE Len(Head(content).word) + (IF Head(content).at THEN 1 ELSE 0)
         + (IF Tail(content) = <<>> THEN 0 ELSE 1 + ContentLength(Tail(content)))

\* python_full_app: AnswerForm.validate_on_submit(), DataRequired and
\* Length(min=10); the others: "if not data.get('content')"
AnswerForm(ap, content) ==
    IF ap = FULL THEN ContentLength(content) >= 10 ELSE content # <<>>

PlainContents == {<<>>, <<Word("thanks")>>, <<Word("many"), Word("thanks")>>}

(* ---- create_question / ask_question ---- *)
create_question(ap, d, user_id, valid) ==
    IF ~valid
    THEN [db |-> d, status |-> IF ap = FULL THEN "200:form" ELSE "400", local |-> NULL]
    ELSE [db |-> [d EXCEPT !.questions = Append(@, Question(user_id))],
          status |-> IF ap = FULL THEN "302:success" ELSE "200",
          local |-> Len(d.questions) + 1]

(* ---- create_answer / post_answer ---- *)
\* (mutant) a mention of the poster notifies the poster
RECURSIVE MentionNotifications_self(_, _, _, _)
MentionNotifications_self(usernames, user_id, question_id, answer_id) ==
    IF usernames = <<>> THEN <<>>
    ELSE LET mentioned_user == UserByUsername(Head(usernames))
             rest == MentionNotifications_self(Tail(usernames), user_id, question_id, answer_id)
         IN IF mentioned_user # NULL
            THEN <<Notification(mentioned_user, "mention", question_id, answer_id)>> \o rest
            ELSE rest

\* the mention loop of python_full_app.post_answer: one notification per match
\* that resolves to a user other than the poster
RECURSIVE MentionNotifications(_, _, _, _)
MentionNotifications(usernames, user_id, question_id, answer_id) ==
    IF usernames = <<>> THEN <<>>
    ELSE LET mentioned_user == UserByUsername(Head(usernames))
             rest == MentionNotifications(Tail(usernames), user_id, question_id, answer_id)
         IN IF mentioned_user # NULL /\ mentioned_user # user_id
            THEN <<Notification(mentioned_user, "mention", question_id, answer_id)>> \o rest
            ELSE rest

\* (mutant) the question's author is notified of their own answer too
create_answer_notifies_author(ap, d, user_id, question_id, content) ==
    IF question_id \notin DOMAIN d.questions
    THEN [db |-> d, status |-> "404", local |-> NULL]
    ELSE IF ~AnswerForm(ap, content)
    THEN [db |-> d, status |-> IF ap = FULL THEN "302:error" ELSE "400", local |-> NULL]
    ELSE
      LET question == d.questions[question_id]
          answer_id == Len(d.answers) + 1
          answered == <<Notification(question.author_id, "answer", question_id, answer_id)>>
          mentioned == IF ap = FULL
                       THEN MentionNotifications(Mentions(content), user_id, question_id, answer_id)
                       ELSE <<>>
      IN [db |-> [d EXCEPT !.answers = Append(@, Answer(question_id, user_id)),
                           !.notifications = @ \o answered \o mentioned],
          status |-> IF ap = FULL THEN "302:success" ELSE "200",
          local |-> answer_id]

create_answer(ap, d, user_id, question_id, content) ==
    IF question_id \notin DOMAIN d.questions
    THEN [db |-> d, status |-> "404", local |-> NULL]
    ELSE IF ~AnswerForm(ap, content)
    THEN [db |-> d, status |-> IF ap = FULL THEN "302:error" ELSE "400", local |-> NULL]
    ELSE
      LET question == d.questions[question_id]
          answer_id == Len(d.answers) + 1
          answered == IF question.author_id # user_id
                      THEN <<Notification(question.author_id, "answer", question_id, answer_id)>>
                      ELSE <<>>
          mentioned == IF ap = FULL
                       THEN MentionNotifications(Mentions(content), user_id, question_id, answer_id)
                       ELSE <<>>
      IN [db |-> [d EXCEPT !.answers = Append(@, Answer(question_id, user_id)),
                           !.notifications = @ \o answered \o mentioned],
          status |-> IF ap = FULL THEN "302:success" ELSE "200",
          local |-> answer_id]

(* ---- accept_answer ---- *)
\* (mutant) the author check is missing
accept_load_any_user(ap, d, user_id, question_id, answer_id) ==
    IF answer_id \notin DOMAIN d.answers
       \/ (ap # FULL /\ question_id \notin DOMAIN d.questions)
    THEN [status |-> "404"]
    ELSE
      LET answer == d.answers[answer_id]
          qid == IF ap = FULL THEN answer.question_id ELSE question_id
          question == d.questions[qid]
          prev == question.accepted_answer_id
      IN [status |-> Accepted(ap),
          question_id |-> qid,
          answer_id |-> answer_id,
          accepted_answer_id |-> prev,
          prev_is_accepted |-> IF prev # NULL /\ prev \in DOMAIN d.answers
                               THEN d.answers[prev].is_accepted ELSE FALSE,
          prev_found |-> prev # NULL /\ prev \in DOMAIN d.answers,
          is_accepted |-> answer.is_accepted]

\* What the handler's session loads before it changes anything: the question,
\* the answer, and the previously accepted answer.
accept_load(ap, d, user_id, question_id, answer_id) ==
    IF answer_id \notin DOMAIN d.answers
       \/ (ap # FULL /\ question_id \notin DOMAIN d.questions)
    THEN [status |-> "404"]
    ELSE
      LET answer == d.answers[answer_id]
          \* python_full_app: question = answer.question; the others: the URL's question_id
          qid == IF ap = FULL THEN answer.question_id ELSE question_id
          question == d.questions[qid]
          prev == question.accepted_answer_id
      IN IF question.author_id # user_id
         THEN [status |-> Forbidden(ap)]
         ELSE [status |-> Accepted(ap),
               question_id |-> qid,
               answer_id |-> answer_id,
               accepted_answer_id |-> prev,
               prev_is_accepted |-> IF prev # NULL /\ prev \in DOMAIN d.answers
                                    THEN d.answers[prev].is_accepted ELSE FALSE,
               prev_found |-> prev # NULL /\ prev \in DOMAIN d.answers,
               is_accepted |-> answer.is_accepted]

\* (mutant) the previous answer is cleared after the new one is set
accept_session_value_clear_last(loaded, id) ==
    IF id = loaded.accepted_answer_id THEN FALSE ELSE TRUE

\* The value the session holds for answers[id].is_accepted when it commits:
\* prev_answer.is_accepted = False, then answer.is_accepted = True.
accept_session_value(loaded, id) ==
    IF id = loaded.answer_id THEN TRUE ELSE FALSE

\* the value the session loaded for answers[id].is_accepted
accept_loaded_value(loaded, id) ==
    IF id = loaded.answer_id THEN loaded.is_accepted ELSE loaded.prev_is_accepted

\* (mutant) the answer's author is told of the acceptance
accept_commit_notifies(d, loaded) ==
    [d EXCEPT
       !.answers = [id \in DOMAIN @ |->
                      IF id = loaded.answer_id THEN [@[id] EXCEPT !.is_accepted = TRUE]
                      ELSE IF id = loaded.accepted_answer_id
                      THEN [@[id] EXCEPT !.is_accepted = FALSE]
                      ELSE @[id]],
       !.questions = [@ EXCEPT ![loaded.question_id].accepted_answer_id = loaded.answer_id],
       !.notifications = Append(@, Notification(d.answers[loaded.answer_id].author_id,
                                                "accepted", loaded.question_id,
                                                loaded.answer_id))]

\* db.session.commit(): one UPDATE per attribute whose session value differs
\* from the value the session loaded
accept_commit(d, loaded) ==
    LET touched == {loaded.answer_id} \cup
                   (IF loaded.prev_found THEN {loaded.accepted_answer_id} ELSE {})
        dirty == {id \in touched :
                    accept_session_value(loaded, id) # accept_loaded_value(loaded, id)}
    IN [d EXCEPT
          !.answers = [id \in DOMAIN @ |->
                         IF id \in dirty
                         THEN [@[id] EXCEPT !.is_accepted = accept_session_value(loaded, id)]
                         ELSE @[id]],
          !.questions = IF loaded.accepted_answer_id # loaded.answer_id
                        THEN [@ EXCEPT ![loaded.question_id].accepted_answer_id = loaded.answer_id]
                        ELSE @]

\* one request served alone: load, mutate, commit
accept_answer(ap, d, user_id, question_id, answer_id) ==
    LET loaded == accept_load(ap, d, user_id, question_id, answer_id)
    IN IF IsSuccess(loaded.status)
       THEN [db |-> accept_commit(d, loaded), status |-> loaded.status,
             local |-> <<loaded.question_id, loaded.answer_id, loaded.accepted_answer_id>>]
       ELSE [db |-> d, status |-> loaded.status, local |-> NULL]


(* ---- vote ---- *)
\* Vote.query.filter_by(user_id=, question_id=, answer_id=).first(): the id of
\* the first matching row (a None argument matches NULL), or NULL
vote_existing(d, user_id, question_id, answer_id) ==
    LET found == {id \in DOMAIN d.votes :
                    /\ d.votes[id].user_id = user_id
                    /\ d.votes[id].question_id = question_id
                    /\ d.votes[id].answer_id = answer_id}
    IN IF found = {} THEN NULL ELSE CHOOSE id \in found : \A other \in found : id <= other

\* the validation and the lookup that open the handler
vote_load(d, user_id, question_id, answer_id, vote_type) ==
    IF vote_type \notin VoteTypes
    THEN [status |-> "400"]
    ELSE LET existing_vote == vote_existing(d, user_id, question_id, answer_id)
         IN [status |-> "200",
             existing_vote |-> existing_vote,
             loaded_vote_type |-> IF existing_vote = NULL THEN NULL
                                  ELSE d.votes[existing_vote].vote_type]

\* (mutant) every vote adds a row
vote_store_always_adds(d, loaded, user_id, question_id, answer_id, vote_type) ==
    [d EXCEPT !.votes = Append(@, Vote(user_id, question_id, answer_id, vote_type))]

\* the first commit: the existing row's vote_type is overwritten, or a row is added
vote_store(d, loaded, user_id, question_id, answer_id, vote_type) ==
    IF loaded.existing_vote # NULL
    THEN IF loaded.loaded_vote_type # vote_type
         THEN [d EXCEPT !.votes[loaded.existing_vote].vote_type = vote_type]
         ELSE d
    ELSE [d EXCEPT !.votes = Append(@, Vote(user_id, question_id, answer_id, vote_type))]

up_votes(d, column, id) ==
    Cardinality({v \in DOMAIN d.votes : d.votes[v][column] = id /\ d.votes[v].vote_type = "up"})

down_votes(d, column, id) ==
    Cardinality({v \in DOMAIN d.votes : d.votes[v][column] = id /\ d.votes[v].vote_type = "down"})

\* Vote.query.filter_by(<column>=id, vote_type='up').count() - ...('down').count()
vote_count(d, column, id) == up_votes(d, column, id) - down_votes(d, column, id)

\* (mutant) the scores move by one with every vote instead of being recounted
vote_recount_incremental(ap, d, user_id, question_id, answer_id, vote_type) ==
    LET on_question == question_id # NULL
        on_answer == answer_id # NULL /\ ~(ap = FULL /\ on_question)
        step == IF vote_type = "up" THEN 1 ELSE 0 - 1
    IN [on_question |-> on_question,
        question_score |-> IF on_question THEN d.questions[question_id].vote_score + step ELSE 0,
        question_loaded |-> IF on_question THEN d.questions[question_id].vote_score ELSE 0,
        on_answer |-> on_answer,
        answer_score |-> IF on_answer THEN d.answers[answer_id].vote_score + step ELSE 0,
        answer_loaded |-> IF on_answer THEN d.answers[answer_id].vote_score ELSE 0,
        upvoted |-> <<>>,
        status |-> IF ap = FULL /\ ~on_question /\ ~on_answer THEN "400" ELSE "200"]

\* (mutant) a vote on an answer notifies its author whatever the direction
vote_recount_notifies_down(ap, d, user_id, question_id, answer_id, vote_type) ==
    LET on_question == question_id # NULL
        on_answer == answer_id # NULL /\ ~(ap = FULL /\ on_question)
    IN [on_question |-> on_question,
        question_score |-> IF on_question THEN vote_count(d, "question_id", question_id) ELSE 0,
        question_loaded |-> IF on_question THEN d.questions[question_id].vote_score ELSE 0,
        on_answer |-> on_answer,
        answer_score |-> IF on_answer THEN vote_count(d, "answer_id", answer_id) ELSE 0,
        answer_loaded |-> IF on_answer THEN d.answers[answer_id].vote_score ELSE 0,
        upvoted |-> IF ap = FULL /\ on_answer /\ d.answers[answer_id].author_id # user_id
                    THEN <<Notification(d.answers[answer_id].author_id, "upvote",
                                        d.answers[answer_id].question_id, answer_id)>>
                    ELSE <<>>,
        status |-> IF ap = FULL /\ ~on_question /\ ~on_answer THEN "400" ELSE "200"]

\* (mutant) python_full_app leaves the down votes out of the count
vote_recount_full_counts_up(ap, d, user_id, question_id, answer_id, vote_type) ==
    LET on_question == question_id # NULL
        on_answer == answer_id # NULL /\ ~(ap = FULL /\ on_question)
    IN [on_question |-> on_question,
        question_score |-> IF ~on_question THEN 0
                           ELSE IF ap = FULL THEN up_votes(d, "question_id", question_id)
                           ELSE vote_count(d, "question_id", question_id),
        question_loaded |-> IF on_question THEN d.questions[question_id].vote_score ELSE 0,
        on_answer |-> on_answer,
        answer_score |-> IF ~on_answer THEN 0
                         ELSE IF ap = FULL THEN up_votes(d, "answer_id", answer_id)
                         ELSE vote_count(d, "answer_id", answer_id),
        answer_loaded |-> IF on_answer THEN d.answers[answer_id].vote_score ELSE 0,
        upvoted |-> IF ap = FULL /\ on_answer /\ vote_type = "up"
                       /\ d.answers[answer_id].author_id # user_id
                    THEN <<Notification(d.answers[answer_id].author_id, "upvote",
                                        d.answers[answer_id].question_id, answer_id)>>
                    ELSE <<>>,
        status |-> IF ap = FULL /\ ~on_question /\ ~on_answer THEN "400" ELSE "200"]

\* what the handler reads after its first commit: which scores it recomputes, the
\* rows it loads for them and the counts.  python_full_app returns from the question
\* branch, so it never recomputes both; the others run both branches.
vote_recount(ap, d, user_id, question_id, answer_id, vote_type) ==
    LET on_question == question_id # NULL
        on_answer == answer_id # NULL /\ ~(ap = FULL /\ on_question)
    IN [on_question |-> on_question,
        question_score |-> IF on_question THEN vote_count(d, "question_id", question_id) ELSE 0,
        question_loaded |-> IF on_question THEN d.questions[question_id].vote_score ELSE 0,
        on_answer |-> on_answer,
        answer_score |-> IF on_answer THEN vote_count(d, "answer_id", answer_id) ELSE 0,
        answer_loaded |-> IF on_answer THEN d.answers[answer_id].vote_score ELSE 0,
        upvoted |-> IF ap = FULL /\ on_answer /\ vote_type = "up"
                       /\ d.answers[answer_id].author_id # user_id
                    THEN <<Notification(d.answers[answer_id].author_id, "upvote",
                                        d.answers[answer_id].question_id, answer_id)>>
                    ELSE <<>>,
        status |-> IF ap = FULL /\ ~on_question /\ ~on_answer THEN "400" ELSE "200"]

\* the second commit: the recomputed scores and python_full_app's upvote notification
vote_write(d, counted, question_id, answer_id) ==
    [d EXCEPT
       !.questions = IF counted.on_question /\ counted.question_score # counted.question_loaded
                     THEN [@ EXCEPT ![question_id].vote_score = counted.question_score]
                     ELSE @,
       !.answers = IF counted.on_answer /\ counted.answer_score # counted.answer_loaded
                   THEN [@ EXCEPT ![answer_id].vote_score = counted.answer_score]
                   ELSE @,
       !.notifications = @ \o counted.upvoted]

\* one request served alone
vote(ap, d, user_id, question_id, answer_id, vote_type) ==
    LET loaded == vote_load(d, user_id, question_id, answer_id, vote_type)
    IN IF loaded.status # "200"
       THEN [db |-> d, status |-> loaded.status, local |-> NULL]
       ELSE LET stored == vote_store(d, loaded, user_id, question_id, answer_id, vote_type)
                counted == vote_recount(ap, stored, user_id, question_id, answer_id, vote_type)
            IN [db |-> vote_write(stored, counted, question_id, answer_id),
                status |-> counted.status,
                local |-> loaded.existing_vote]


(* ---- notifications / get_notifications ---- *)
\* the ids of a set, newest first: order_by(Notification.created_at.desc())
RECURSIVE Descending(_)
Descending(ids) ==
    IF ids = {} THEN <<>>
    ELSE LET newest == CHOOSE id \in ids : \A other \in ids : other <= id
         IN <<newest>> \o Descending(ids \ {newest})

\* python_app / python_backend: .limit(20)
ListLimit == 20

\* (mutant) the listing marks nothing
get_notifications_read_only(ap, d, user_id) ==
    [db |-> d, status |-> "200",
     local |-> Descending({n \in DOMAIN d.notifications : d.notifications[n].user_id = user_id})]

\* The caller's notifications, newest first.  python_full_app marks every one of
\* them read and commits; the others only read, at most ListLimit of them.
get_notifications(ap, d, user_id) ==
    LET own == {n \in DOMAIN d.notifications : d.notifications[n].user_id = user_id}
        listed == Descending(own)
    IN IF ap = FULL
       THEN [db |-> [d EXCEPT !.notifications =
                        [n \in DOMAIN @ |-> IF n \in own THEN [@[n] EXCEPT !.is_read = TRUE]
                                            ELSE @[n]]],
             status |-> "200",
             local |-> listed]
       ELSE [db |-> d, status |-> "200",
             local |-> IF Len(listed) <= ListLimit THEN listed ELSE SubSeq(listed, 1, ListLimit)]

(* ---- notification_count / get_unread_count ---- *)
\* (mutant) the count leaves is_read out
get_unread_count_all(d, user_id) ==
    [db |-> d, status |-> "200",
     local |-> Cardinality({n \in DOMAIN d.notifications : d.notifications[n].user_id = user_id})]

\* Notification.query.filter_by(user_id=..., is_read=False).count()
get_unread_count(d, user_id) ==
    [db |-> d, status |-> "200",
     local |-> Cardinality({n \in DOMAIN d.notifications :
                               /\ d.notifications[n].user_id = user_id
                               /\ d.notifications[n].is_read = FALSE})]

(* ---- mark_notification_read ---- *)
\* (mutant) the request flips the flag
mark_notification_read_flips(ap, d, user_id, notification_id) ==
    IF notification_id \notin DOMAIN d.notifications
    THEN [db |-> d, status |-> "404", local |-> NULL]
    ELSE IF d.notifications[notification_id].user_id # user_id
    THEN [db |-> d, status |-> IF ap = FULL THEN "200" ELSE "404", local |-> NULL]
    ELSE [db |-> [d EXCEPT !.notifications[notification_id].is_read = ~@],
          status |-> "200", local |-> notification_id]

\* (mutant) the recipient is not checked
mark_notification_read_any_user(ap, d, user_id, notification_id) ==
    IF notification_id \notin DOMAIN d.notifications
    THEN [db |-> d, status |-> "404", local |-> NULL]
    ELSE [db |-> [d EXCEPT !.notifications[notification_id].is_read = TRUE],
          status |-> "200", local |-> notification_id]

\* python_full_app: get_or_404(notification_id), the flag is set when the caller
\* is the recipient, and the response is a success either way; the others:
\* filter_by(id=notification_id, user_id=user.id).first_or_404()
mark_notification_read(ap, d, user_id, notification_id) ==
    IF notification_id \notin DOMAIN d.notifications
    THEN [db |-> d, status |-> "404", local |-> NULL]
    ELSE IF d.notifications[notification_id].user_id # user_id
    THEN [db |-> d, status |-> IF ap = FULL THEN "200" ELSE "404", local |-> NULL]
    ELSE [db |-> [d EXCEPT !.notifications[notification_id].is_read = TRUE],
          status |-> "200", local |-> notification_id]

(* ---- the requests in flight (used by the interleaved specifications) ---- *)
Workers == {1, 2}
Idle == [pc |-> "idle", served |-> 0]

(* ---- start-up: db.create_all() on an empty database ---- *)
Init ==
    /\ app \in Apps
    /\ questions = <<>>
    /\ answers = <<>>
    /\ votes = <<>>
    /\ notifications = <<>>
    /\ last = [op |-> "create_all", status |-> "200", local |-> NULL]
    /\ txn = [w \in Workers |-> Idle]

\* the tables stay within the model's bounds
Fits(d) ==
    /\ Len(d.questions) <= Cardinality(QuestionIds)
    /\ Len(d.answers) <= MaxAnswers
    /\ Len(d.votes) <= MaxVotes
    /\ Len(d.notifications) <= MaxNotifications

\* a request served from start to end with no other request in between
Serve(op, result) ==
    /\ Fits(result.db)
    /\ questions' = result.db.questions
    /\ answers' = result.db.answers
    /\ votes' = result.db.votes
    /\ notifications' = result.db.notifications
    /\ last' = [op |-> op, status |-> result.status, local |-> result.local]
    /\ UNCHANGED <<app, txn>>

AskQuestion(user_ids, valids) ==
    \E user_id \in user_ids, valid \in valids :
        Serve("create_question",
              create_question(app, db, user_id, valid))

PostAnswer(question_ids, contents) ==
    \E user_id \in Users, question_id \in question_ids, content \in contents :
        Serve("create_answer",
              create_answer(app, db, user_id, question_id, content))

\* python_full_app's route carries the answer id alone
AcceptAnswer ==
    \E user_id \in Users, answer_id \in AnswerIds,
       question_id \in IF app = FULL THEN {NULL} ELSE QuestionIds :
        Serve("accept_answer",
              accept_answer(app, db, user_id, question_id, answer_id))

NextAccept ==
    \/ AskQuestion(Users, BOOLEAN)
    \/ PostAnswer(QuestionIds, PlainContents)
    \/ AcceptAnswer

SpecAccept == Init /\ [][NextAccept]_vars


\* the request names a question and an answer that exist, or leaves either out
CastVote ==
    \E user_id \in Users, vote_type \in VoteTypes \cup {"sideways"},
       question_id \in {NULL} \cup DOMAIN questions,
       answer_id \in {NULL} \cup DOMAIN answers :
        Serve("vote",
              vote(app, db, user_id, question_id, answer_id, vote_type))

\* The votes are studied on one question with one answer, both posted with
\* valid forms; the users are interchangeable, so the first of them asks.
VoteQuestionIds == {1}
VoteAnswerIds == {1}
Asker == {1}
Thanks == {<<Word("many"), Word("thanks")>>}

NextVote ==
    \/ AskQuestion(Asker, {TRUE}) /\ DOMAIN questions' \subseteq VoteQuestionIds
    \/ PostAnswer(DOMAIN questions, Thanks) /\ DOMAIN answers' \subseteq VoteAnswerIds
    \/ CastVote

SpecVote == Init /\ [][NextVote]_vars


\* answers with mentions: of a user twice, of both users, of nobody registered,
\* and one too short for python_full_app's form
MentionContents ==
    {<<Mention("bob"), Word("thanks")>>,
     <<Mention("bob"), Mention("bob"), Word("hi")>>,
     <<Mention("alice"), Mention("bob")>>,
     <<Mention("carol"), Word("thanks")>>,
     <<Mention("bob")>>}

PostContents == Thanks \cup MentionContents

NextPost ==
    \/ AskQuestion(Users, {TRUE})
    \/ PostAnswer(QuestionIds, PostContents)

SpecPost == Init /\ [][NextPost]_vars


\* every operation on one question with one answer
NextEngage ==
    \/ AskQuestion(Asker, {TRUE}) /\ DOMAIN questions' \subseteq VoteQuestionIds
    \/ PostAnswer(DOMAIN questions, Thanks) /\ DOMAIN answers' \subseteq VoteAnswerIds
    \/ CastVote
    \/ AcceptAnswer

SpecEngage == Init /\ [][NextEngage]_vars


GetNotifications ==
    \E user_id \in Users :
        Serve("get_notifications", get_notifications(app, db, user_id))

GetUnreadCount ==
    \E user_id \in Users :
        Serve("get_unread_count", get_unread_count(db, user_id))

\* the request names a notification of the table, or the id after the last
MarkNotificationRead ==
    \E user_id \in Users, notification_id \in 1..(Len(notifications) + 1) :
        Serve("mark_notification_read",
              mark_notification_read(app, db, user_id, notification_id))

\* a vote up on the first answer, the request that notifies in python_full_app
UpvoteAnswer ==
    \E user_id \in Users, answer_id \in DOMAIN answers \cap VoteAnswerIds :
        Serve("vote", vote(app, db, user_id, NULL, answer_id, "up"))

\* The notifications of the answers, mentions and upvotes on one question, and
\* their readers.
NotifyQuestionIds == {1}
NotifyContents == Thanks \cup {<<Mention("alice"), Mention("bob")>>}

NextNotify ==
    \/ AskQuestion(Asker, {TRUE}) /\ DOMAIN questions' \subseteq NotifyQuestionIds
    \/ PostAnswer(DOMAIN questions, NotifyContents)
    \/ UpvoteAnswer
    \/ GetNotifications
    \/ GetUnreadCount
    \/ MarkNotificationRead

SpecNotify == Init /\ [][NextNotify]_vars


(***************************************************************************)
(* Requests served concurrently: each worker has its own SQLAlchemy        *)
(* session.  A step of a worker is one round of reads, or one commit; the  *)
(* store is read-committed, so a read sees every commit made before it.    *)
(***************************************************************************)
Finish(op, status, local) ==
    last' = [op |-> op, status |-> status, local |-> local]

\* accept_answer reads the question, the answer and the previous answer
AcceptBegin(w) ==
    /\ txn[w].pc = "idle"
    /\ txn[w].served < MaxServed
    /\ \E user_id \in Users, answer_id \in AnswerIds,
          question_id \in IF app = FULL THEN {NULL} ELSE QuestionIds :
         LET loaded == accept_load(app, db, user_id, question_id, answer_id)
         IN IF IsSuccess(loaded.status)
            THEN /\ txn' = [txn EXCEPT ![w] = [pc |-> "accept_commit",
                                                served |-> @.served, loaded |-> loaded]]
                 /\ UNCHANGED last
            ELSE /\ Finish("accept_answer", loaded.status, NULL)
                 /\ txn' = [txn EXCEPT ![w].served = @ + 1]
    /\ UNCHANGED <<app, questions, answers, votes, notifications>>

\* accept_answer commits what its session changed
AcceptCommit(w) ==
    /\ txn[w].pc = "accept_commit"
    /\ LET loaded == txn[w].loaded
           d == accept_commit(db, loaded)
       IN /\ questions' = d.questions
          /\ answers' = d.answers
          /\ Finish("accept_answer", loaded.status,
                    <<loaded.question_id, loaded.answer_id, loaded.accepted_answer_id>>)
    /\ txn' = [txn EXCEPT ![w] = [pc |-> "idle", served |-> @.served + 1]]
    /\ UNCHANGED <<app, votes, notifications>>

\* the races on acceptance are studied on the answers of one question
RaceQuestionIds == {1}

NextAcceptRace ==
    \/ AskQuestion(Asker, {TRUE}) /\ DOMAIN questions' \subseteq RaceQuestionIds
    \/ PostAnswer(DOMAIN questions, Thanks)
    \/ \E w \in Workers : AcceptBegin(w)
    \/ \E w \in Workers : AcceptCommit(w)

SpecAcceptRace == Init /\ [][NextAcceptRace]_vars


\* (mutant) a crash leaves the is_accepted flags the session had set, without
\* the question's accepted_answer_id
AcceptCrash_flushed(w) ==
    /\ txn[w].pc = "accept_commit"
    /\ answers' = accept_commit(db, txn[w].loaded).answers
    /\ Finish("accept_answer", "500",
              <<txn[w].loaded.question_id, txn[w].loaded.answer_id,
                txn[w].loaded.accepted_answer_id>>)
    /\ txn' = [txn EXCEPT ![w] = [pc |-> "idle", served |-> @.served + 1]]
    /\ UNCHANGED <<app, questions, votes, notifications>>

\* accept_answer is interrupted before its db.session.commit(): the session's
\* changes are rolled back with its transaction
AcceptCrash(w) ==
    /\ txn[w].pc = "accept_commit"
    /\ Finish("accept_answer", "500",
              <<txn[w].loaded.question_id, txn[w].loaded.answer_id,
                txn[w].loaded.accepted_answer_id>>)
    /\ txn' = [txn EXCEPT ![w] = [pc |-> "idle", served |-> @.served + 1]]
    /\ UNCHANGED <<app, questions, answers, votes, notifications>>

\* accept_answer requests served one at a time, any of which may be interrupted
NextAcceptCrash ==
    \/ AskQuestion(Asker, {TRUE}) /\ DOMAIN questions' \subseteq RaceQuestionIds
    \/ PostAnswer(DOMAIN questions, Thanks)
    \/ \E w \in Workers : AcceptBegin(w) /\ \A other \in Workers : txn[other].pc = "idle"
    \/ \E w \in Workers : AcceptCommit(w)
    \/ \E w \in Workers : AcceptCrash(w)

SpecAcceptCrash == Init /\ [][NextAcceptCrash]_vars


\* get_question loads the question
ViewBegin(w) ==
    /\ txn[w].pc = "idle"
    /\ txn[w].served < MaxViewed
    /\ \E question_id \in QuestionIds :
         IF question_id \in DOMAIN questions
         THEN /\ txn' = [txn EXCEPT ![w] =
                            [pc |-> "get_question", served |-> @.served,
                             question_id |-> question_id,
                             view_count |-> questions[question_id].view_count]]
              /\ UNCHANGED last
         ELSE /\ Finish("get_question", "404", NULL)
              /\ txn' = [txn EXCEPT ![w].served = @ + 1]
    /\ UNCHANGED <<app, questions, answers, votes, notifications>>

\* get_question commits: UPDATE questions SET view_count = <loaded + 1>
ViewCommit(w) ==
    /\ txn[w].pc = "get_question"
    /\ questions' = [questions EXCEPT ![txn[w].question_id].view_count = txn[w].view_count + 1]
    /\ Finish("get_question", "200", txn[w].view_count + 1)
    /\ txn' = [txn EXCEPT ![w] = [pc |-> "idle", served |-> @.served + 1]]
    /\ UNCHANGED <<app, answers, votes, notifications>>

NextViewRace ==
    \/ AskQuestion(Users, {TRUE})
    \/ \E w \in Workers : ViewBegin(w)
    \/ \E w \in Workers : ViewCommit(w)

SpecViewRace == Init /\ [][NextViewRace]_vars

\* vote validates and looks the caller's vote up
VoteBegin(w, question_ids, answer_ids) ==
    /\ txn[w].pc = "idle"
    /\ txn[w].served < MaxServed
    /\ \E user_id \in Users, vote_type \in VoteTypes \cup {"sideways"},
          question_id \in question_ids, answer_id \in answer_ids :
         LET loaded == vote_load(db, user_id, question_id, answer_id, vote_type)
         IN IF loaded.status = "200"
            THEN /\ txn' = [txn EXCEPT ![w] =
                               [pc |-> "vote_store", served |-> @.served,
                                user_id |-> user_id,
                                question_id |-> question_id, answer_id |-> answer_id,
                                vote_type |-> vote_type, loaded |-> loaded]]
                 /\ UNCHANGED last
            ELSE /\ Finish("vote", loaded.status, NULL)
                 /\ txn' = [txn EXCEPT ![w].served = @ + 1]
    /\ UNCHANGED <<app, questions, answers, votes, notifications>>

\* vote's first db.session.commit()
VoteStore(w) ==
    /\ txn[w].pc = "vote_store"
    /\ LET t == txn[w]
           d == vote_store(db, t.loaded, t.user_id, t.question_id, t.answer_id, t.vote_type)
       IN /\ Len(d.votes) <= MaxVotes
          /\ votes' = d.votes
    /\ txn' = [txn EXCEPT ![w] = [pc |-> "vote_recount", served |-> @.served,
                                  user_id |-> @.user_id,
                                  question_id |-> @.question_id, answer_id |-> @.answer_id,
                                  vote_type |-> @.vote_type,
                                  existing_vote |-> @.loaded.existing_vote]]
    /\ UNCHANGED <<app, questions, answers, notifications, last>>

\* vote loads the target and counts its votes
VoteRecount(w) ==
    /\ txn[w].pc = "vote_recount"
    /\ LET t == txn[w]
           counted == vote_recount(app, db, t.user_id, t.question_id, t.answer_id, t.vote_type)
       IN txn' = [txn EXCEPT ![w] = [pc |-> "vote_write", served |-> t.served,
                                     question_id |-> t.question_id,
                                     answer_id |-> t.answer_id,
                                     existing_vote |-> t.existing_vote,
                                     counted |-> counted]]
    /\ UNCHANGED <<app, questions, answers, votes, notifications, last>>

\* vote's second db.session.commit()
VoteWrite(w) ==
    /\ txn[w].pc = "vote_write"
    /\ LET t == txn[w]
           d == vote_write(db, t.counted, t.question_id, t.answer_id)
       IN /\ Len(d.notifications) <= MaxNotifications
          /\ questions' = d.questions
          /\ answers' = d.answers
          /\ notifications' = d.notifications
          /\ Finish("vote", t.counted.status, t.existing_vote)
    /\ txn' = [txn EXCEPT ![w] = [pc |-> "idle", served |-> @.served + 1]]
    /\ UNCHANGED <<app, votes>>

\* the races on votes are studied on the votes for one answer
NextVoteRace ==
    \/ AskQuestion(Asker, {TRUE}) /\ DOMAIN questions' \subseteq VoteQuestionIds
    \/ PostAnswer(DOMAIN questions, Thanks) /\ DOMAIN answers' \subseteq VoteAnswerIds
    \/ \E w \in Workers : VoteBegin(w, {NULL}, DOMAIN answers)
    \/ \E w \in Workers : VoteStore(w)
    \/ \E w \in Workers : VoteRecount(w)
    \/ \E w \in Workers : VoteWrite(w)

SpecVoteRace == Init /\ [][NextVoteRace]_vars


\* post_answer / create_answer in its commits: the answer, then the answer
\* notification, then one commit per mention.  What the handler reads first:
post_load(ap, d, user_id, question_id, content) ==
    IF question_id \notin DOMAIN d.questions
    THEN [status |-> "404"]
    ELSE IF ~AnswerForm(ap, content)
    THEN [status |-> IF ap = FULL THEN "302:error" ELSE "400"]
    ELSE [status |-> IF ap = FULL THEN "302:success" ELSE "200",
          author_id |-> d.questions[question_id].author_id,
          mentions |-> IF ap = FULL THEN Mentions(content) ELSE <<>>]

PostBegin(w) ==
    /\ txn[w].pc = "idle"
    /\ txn[w].served < MaxServed
    /\ \E user_id \in Users, question_id \in DOMAIN questions, content \in PostContents :
         LET loaded == post_load(app, db, user_id, question_id, content)
         IN IF loaded.status \in {"200", "302:success"}
            THEN /\ txn' = [txn EXCEPT ![w] =
                               [pc |-> "post_answer", served |-> @.served,
                                user_id |-> user_id, question_id |-> question_id,
                                answer_id |-> NULL, loaded |-> loaded]]
                 /\ UNCHANGED last
            ELSE /\ Finish("create_answer", loaded.status, NULL)
                 /\ txn' = [txn EXCEPT ![w].served = @ + 1]
    /\ UNCHANGED <<app, questions, answers, votes, notifications>>

\* db.session.add(answer); db.session.commit()
PostStore(w) ==
    /\ txn[w].pc = "post_answer"
    /\ Len(answers) < MaxAnswers
    /\ answers' = Append(answers, Answer(txn[w].question_id, txn[w].user_id))
    /\ txn' = [txn EXCEPT ![w].pc = "post_notify", ![w].answer_id = Len(answers) + 1]
    /\ UNCHANGED <<app, questions, votes, notifications, last>>

\* the notification for the question's author, committed on its own
PostNotify(w) ==
    /\ txn[w].pc = "post_notify"
    /\ LET t == txn[w]
       IN IF t.loaded.author_id # t.user_id
          THEN /\ Len(notifications) < MaxNotifications
               /\ notifications' = Append(notifications,
                                          Notification(t.loaded.author_id, "answer",
                                                       t.question_id, t.answer_id))
          ELSE UNCHANGED notifications
    /\ txn' = [txn EXCEPT ![w].pc = "post_mention"]
    /\ UNCHANGED <<app, questions, answers, votes, last>>

\* one round of the mention loop: the next match, committed on its own
PostMention(w) ==
    /\ txn[w].pc = "post_mention"
    /\ txn[w].loaded.mentions # <<>>
    /\ LET t == txn[w]
           mention == MentionNotifications(<<Head(t.loaded.mentions)>>, t.user_id,
                                           t.question_id, t.answer_id)
       IN /\ Len(notifications) + Len(mention) <= MaxNotifications
          /\ notifications' = notifications \o mention
    /\ txn' = [txn EXCEPT ![w].loaded.mentions = Tail(@)]
    /\ UNCHANGED <<app, questions, answers, votes, last>>

\* the loop is over: the response
PostReturn(w) ==
    /\ txn[w].pc = "post_mention"
    /\ txn[w].loaded.mentions = <<>>
    /\ Finish("create_answer", txn[w].loaded.status, txn[w].answer_id)
    /\ txn' = [txn EXCEPT ![w] = [pc |-> "idle", served |-> @.served + 1]]
    /\ UNCHANGED <<app, questions, answers, votes, notifications>>

\* a commit after the answer's raises (the store is unreachable): the request
\* ends with a 500 and what it committed stays
PostFail(w) ==
    /\ txn[w].pc \in {"post_notify", "post_mention"}
    /\ Finish("create_answer", "500", txn[w].answer_id)
    /\ txn' = [txn EXCEPT ![w] = [pc |-> "idle", served |-> @.served + 1]]
    /\ UNCHANGED <<app, questions, answers, votes, notifications>>

NextPostRace ==
    \/ AskQuestion(Users, {TRUE}) /\ DOMAIN questions' \subseteq RaceQuestionIds
    \/ \E w \in Workers : PostBegin(w)
    \/ \E w \in Workers : PostStore(w)
    \/ \E w \in Workers : PostNotify(w)
    \/ \E w \in Workers : PostMention(w)
    \/ \E w \in Workers : PostReturn(w)
    \/ \E w \in Workers : PostFail(w)

SpecPostRace == Init /\ [][NextPostRace]_vars


(***************************************************************************)
(* Properties                                                              *)
(***************************************************************************)
Quiescent == \A w \in Workers : txn[w].pc = "idle"

AcceptedAnswers(question_id) ==
    {a \in DOMAIN answers : answers[a].question_id = question_id /\ answers[a].is_accepted}

\* C1: every question has at most one answer with is_accepted = TRUE, and an
\* answer has is_accepted = TRUE iff it is the accepted_answer_id of its parent
\* question, in every state reached by create_answer and accept_answer requests
\* served one at a time.
C1_OneAcceptedPerQuestion ==
    /\ \A q \in DOMAIN questions : Cardinality(AcceptedAnswers(q)) <= 1
    /\ \A a \in DOMAIN answers :
         answers[a].is_accepted <=> questions[answers[a].question_id].accepted_answer_id = a

\* C5: a question's accepted_answer_id, if set, references an answer of that question.
C5_AcceptedAnswerBelongsToQuestion ==
    \A q \in DOMAIN questions :
        questions[q].accepted_answer_id # NULL =>
            /\ questions[q].accepted_answer_id \in DOMAIN answers
            /\ answers[questions[q].accepted_answer_id].question_id = q

\* C9: accept_answer(question_id, answer_id) for an answer of another question
\* answers 404 and changes neither an accepted_answer_id nor an is_accepted flag
\* (the backends whose route carries the question id).
C9_AcceptOtherQuestionsAnswerNotFound ==
    app # FULL =>
        \A user_id \in Users, q \in DOMAIN questions, a \in DOMAIN answers :
            answers[a].question_id # q =>
                LET r == accept_answer(app, db, user_id, q, a)
                IN /\ r.status = "404"
                   /\ r.db.questions = questions
                   /\ r.db.answers = answers

\* C8: accept_answer is idempotent: a second call with the answer just accepted
\* succeeds and leaves the whole store as the first call left it.
C8_AcceptIdempotent ==
    \A user_id \in Users, a \in DOMAIN answers,
       q \in IF app = FULL THEN {NULL} ELSE DOMAIN questions :
        \A first \in {accept_answer(app, db, user_id, q, a)} :
            IsSuccess(first.status) =>
               \A second \in {accept_answer(app, first.db, user_id, q, a)} :
                  /\ IsSuccess(second.status)
                  /\ second.db = first.db

\* a request accepted the answer that was already the question's accepted answer
C8_Witness ==
    /\ last.op = "accept_answer"
    /\ IsSuccess(last.status)
    /\ last.local[3] = last.local[2]
    /\ answers[last.local[2]].is_accepted
    /\ questions[last.local[1]].accepted_answer_id = last.local[2]

\* C10: accept_answer by a user who is not the question's author is refused
\* (403, or python_full_app's flashed error) and changes nothing.
C10_AcceptByNonAuthorForbidden ==
    \A user_id \in Users, a \in DOMAIN answers,
       q \in IF app = FULL THEN {NULL} ELSE DOMAIN questions :
        LET qid == IF app = FULL THEN answers[a].question_id ELSE q
            r == accept_answer(app, db, user_id, q, a)
        IN questions[qid].author_id # user_id =>
              /\ IsForbidden(r.status)
              /\ r.db = db

\* a refused accept_answer was served while the store holds an accepted answer
C10_Witness ==
    /\ last.op = "accept_answer"
    /\ IsForbidden(last.status)
    /\ \E a \in DOMAIN answers : answers[a].is_accepted


\* C6: two accept_answer requests for different answers of one question, served
\* concurrently, cannot both take effect: once both have finished, the question
\* has exactly one accepted answer and it is the one accepted_answer_id names.
\* (Stated for python_full_app, whose accept_answer cannot cross questions.)
C6_ConcurrentAcceptsExclusive ==
    (app = FULL /\ Quiescent) =>
        \A q \in DOMAIN questions :
            questions[q].accepted_answer_id # NULL =>
                AcceptedAnswers(q) = {questions[q].accepted_answer_id}

\* the rows of votes cast for the same (user_id, question_id, answer_id)
SameVote(i, j) ==
    /\ votes[i].user_id = votes[j].user_id
    /\ votes[i].question_id = votes[j].question_id
    /\ votes[i].answer_id = votes[j].answer_id

\* C7: after two vote requests of one user for one target have run concurrently,
\* at most one row of votes exists for that (user, target): the second insert is
\* rejected.
C7_ConcurrentVotesOneRow ==
    Quiescent => \A i, j \in DOMAIN votes : SameVote(i, j) => i = j

\* C2: after every completed vote request (served one at a time), for every
\* question and every answer the stored vote_score equals the number of its
\* up votes minus the number of its down votes.
C2_ScoreIsUpMinusDown ==
    /\ \A q \in DOMAIN questions : questions[q].vote_score = vote_count(db, "question_id", q)
    /\ \A a \in DOMAIN answers : answers[a].vote_score = vote_count(db, "answer_id", a)

\* the vote requests the handlers accept
VoteRequests ==
    [user_id : Users, question_id : {NULL} \cup DOMAIN questions,
     answer_id : {NULL} \cup DOMAIN answers, vote_type : VoteTypes]

Voted(d, r) == vote(app, d, r.user_id, r.question_id, r.answer_id, r.vote_type).db

\* C3: with votes served one at a time there is at most one row of votes per
\* (user, target); a repeat vote overwrites the vote_type of the existing row in
\* place and adds no row.
C3_OneVoteRowPerUserAndTarget ==
    /\ \A i, j \in DOMAIN votes : SameVote(i, j) => i = j
    /\ \A r \in VoteRequests :
         \A existing_vote \in {vote_existing(db, r.user_id, r.question_id, r.answer_id)},
            after \in {Voted(db, r).votes} :
            existing_vote # NULL =>
               /\ Len(after) = Len(votes)
               /\ after[existing_vote].vote_type = r.vote_type
               /\ \A i \in DOMAIN votes :
                    /\ after[i].user_id = votes[i].user_id
                    /\ after[i].question_id = votes[i].question_id
                    /\ after[i].answer_id = votes[i].answer_id
                    /\ i # existing_vote => after[i] = votes[i]

\* a vote request found the caller's earlier vote and changed its direction
C3_Witness ==
    /\ last.op = "vote"
    /\ last.status = "200"
    /\ last.local # NULL
    /\ Len(votes) = MaxVotes
    /\ \E i \in DOMAIN votes : i # last.local /\ votes[i].vote_type # votes[last.local].vote_type

Sign(vote_type) == IF vote_type = "up" THEN 1 ELSE 0 - 1

\* the rows of d.votes for request r's user and target
OwnVotes(d, r) ==
    {i \in DOMAIN d.votes :
        /\ d.votes[i].user_id = r.user_id
        /\ d.votes[i].question_id = r.question_id
        /\ d.votes[i].answer_id = r.answer_id}

\* the target's score as the votes of everybody else make it
OthersScore(d, r) ==
    LET column == IF r.question_id # NULL THEN "question_id" ELSE "answer_id"
        id == IF r.question_id # NULL THEN r.question_id ELSE r.answer_id
        others == {i \in DOMAIN d.votes \ OwnVotes(d, r) : d.votes[i][column] = id}
    IN Cardinality({i \in others : d.votes[i].vote_type = "up"})
       - Cardinality({i \in others : d.votes[i].vote_type = "down"})

TargetScore(d, r) ==
    IF r.question_id # NULL THEN d.questions[r.question_id].vote_score
    ELSE d.answers[r.answer_id].vote_score

\* no vote names the answer
Unvoted(d, answer_id) == \A i \in DOMAIN d.votes : d.votes[i].answer_id # answer_id

\* C4: whatever a user voted before on a target, after their vote the target has
\* one row of theirs, with the direction just cast, and its score is the others'
\* score plus 1 for up, minus 1 for down.  In particular up, down, up by one
\* voter on an unvoted answer leaves one row, direction up, and a score of 1.
C4_LastDirectionCounts ==
    /\ \A r \in VoteRequests :
         (r.question_id = NULL) # (r.answer_id = NULL) =>
            \A after \in {Voted(db, r)} :
               /\ Cardinality(OwnVotes(after, r)) = 1
               /\ \A i \in OwnVotes(after, r) : after.votes[i].vote_type = r.vote_type
               /\ TargetScore(after, r) = OthersScore(after, r) + Sign(r.vote_type)
    /\ \A r \in VoteRequests :
         (r.question_id = NULL /\ r.answer_id # NULL /\ Unvoted(db, r.answer_id)) =>
            \A again \in {Voted(Voted(Voted(db, [r EXCEPT !.vote_type = "up"]),
                                            [r EXCEPT !.vote_type = "down"]),
                                      [r EXCEPT !.vote_type = "up"])} :
               /\ \E i \in DOMAIN again.votes :
                    /\ again.votes[i] = Vote(r.user_id, NULL, r.answer_id, "up")
                    /\ \A j \in DOMAIN again.votes : again.votes[j].answer_id = r.answer_id => j = i
               /\ again.answers[r.answer_id].vote_score = 1

\* a user's vote on an answer was changed back to up: the answer has that one
\* vote and a score of 1
C4_Witness ==
    /\ last.op = "vote"
    /\ last.status = "200"
    /\ last.local # NULL
    /\ \E a \in DOMAIN answers :
         /\ votes[last.local].answer_id = a
         /\ votes[last.local].question_id = NULL
         /\ votes[last.local].vote_type = "up"
         /\ \A j \in DOMAIN votes : votes[j].answer_id = a => j = last.local
         /\ answers[a].vote_score = 1

\* the notifications of a kind among rows
OfType(rows, type) == SelectSeq(rows, LAMBDA n : n.type = type)

\* the rows a handler added to notifications
Added(d) == SubSeq(d.notifications, Len(notifications) + 1, Len(d.notifications))

\* C11: a vote request with vote_type up that names an answer (and no question)
\* adds one notification of type upvote for the answer's author, naming the answer
\* and its question, when the voter is not the author; it adds none when the
\* voter is the author.
C11_UpvoteNotifiesAnswerAuthor ==
    \A r \in VoteRequests :
        (r.question_id = NULL /\ r.answer_id # NULL /\ r.vote_type = "up") =>
            \A answer \in {answers[r.answer_id]} :
                Added(Voted(db, r)) =
                    IF answer.author_id # r.user_id
                    THEN <<Notification(answer.author_id, "upvote",
                                        answer.question_id, r.answer_id)>>
                    ELSE <<>>

\* the users other than its author who have a vote on the answer
Voters(answer_id) ==
    {votes[i].user_id : i \in {j \in DOMAIN votes : /\ votes[j].answer_id = answer_id
                                                    /\ votes[j].question_id = NULL
                                                    /\ votes[j].user_id # answers[answer_id].author_id}}

UpvoteNotifications(answer_id) ==
    {n \in DOMAIN notifications : /\ notifications[n].type = "upvote"
                                  /\ notifications[n].answer_id = answer_id}

\* C12: a vote that overwrites the caller's existing vote on an answer adds no
\* notification, so an answer never has more upvote notifications than it has
\* voters other than its author.
C12_UpvoteNotificationOnlyWhenFresh ==
    /\ \A r \in VoteRequests :
         (r.question_id = NULL /\ r.answer_id # NULL
            /\ vote_existing(db, r.user_id, r.question_id, r.answer_id) # NULL) =>
               Added(Voted(db, r)) = <<>>
    /\ \A a \in DOMAIN answers :
         Cardinality(UpvoteNotifications(a)) <= Cardinality(Voters(a))

\* the answers posted on the questions of the store
PostRequests == [user_id : Users, question_id : DOMAIN questions, content : PostContents]

Posted(d, r) == create_answer(app, d, r.user_id, r.question_id, r.content)

\* C13: an answer posted by a user other than the question's author adds exactly
\* one notification of type answer, for the question's author, naming the
\* question and the new answer; an answer posted by the question's author adds
\* no notification of type answer.
C13_AnswerNotifiesQuestionAuthor ==
    \A r \in PostRequests :
        AnswerForm(app, r.content) =>
            \A after \in {Posted(db, r).db} :
                /\ after.answers = Append(answers, Answer(r.question_id, r.user_id))
                /\ OfType(Added(after), "answer") =
                      IF questions[r.question_id].author_id # r.user_id
                      THEN <<Notification(questions[r.question_id].author_id, "answer",
                                          r.question_id, Len(answers) + 1)>>
                      ELSE <<>>

\* the last request posted an answer to somebody else's question, and the
\* question's author has the notification of it
C13_Witness ==
    /\ last.op = "create_answer"
    /\ last.local # NULL
    /\ answers[last.local].author_id # questions[answers[last.local].question_id].author_id
    /\ \E n \in DOMAIN notifications :
         notifications[n] = Notification(questions[answers[last.local].question_id].author_id,
                                         "answer", answers[last.local].question_id, last.local)

\* the tokens of the content that mention a registered user other than user_id
Resolving(content, user_id) ==
    {i \in DOMAIN content :
        /\ content[i].at
        /\ \E u \in Users \ {user_id} : Usernames[u] = content[i].word}

\* C14: every mention notification an answer adds is for a registered user other
\* than the poster whom an @token of the content names, and names the answer and
\* its question; tokens naming nobody registered, or the poster, add nothing and
\* the answer is stored all the same.
C14_MentionNotifiesResolvedOthers ==
    \A r \in PostRequests :
        AnswerForm(app, r.content) =>
            \A posted \in {Posted(db, r)} :
                /\ posted.status \in {"200", "302:success"}
                /\ posted.db.answers = Append(answers, Answer(r.question_id, r.user_id))
                /\ \A n \in DOMAIN OfType(Added(posted.db), "mention") :
                     \A mention \in {OfType(Added(posted.db), "mention")[n]} :
                        /\ mention.user_id \in Users \ {r.user_id}
                        /\ \E i \in Resolving(r.content, r.user_id) :
                              Usernames[mention.user_id] = r.content[i].word
                        /\ mention.question_id = r.question_id
                        /\ mention.answer_id = Len(answers) + 1
                /\ Resolving(r.content, r.user_id) = {} =>
                      OfType(Added(posted.db), "mention") = <<>>

\* the last request posted an answer and a user it mentions has the notification
C14_Witness ==
    /\ last.op = "create_answer"
    /\ last.local # NULL
    /\ \E n \in DOMAIN notifications :
         /\ notifications[n].type = "mention"
         /\ notifications[n].answer_id = last.local
         /\ notifications[n].question_id = answers[last.local].question_id
         /\ notifications[n].user_id # answers[last.local].author_id

\* C15: (python_full_app, the backend that scans for mentions) an answer adds as
\* many mention notifications as its content has @tokens naming a registered
\* user other than the poster, a name repeated counting each time; the same
\* content posted again as a new answer adds as many again.
C15_MentionsNotDeduplicated ==
    app = FULL =>
        \A r \in PostRequests :
            AnswerForm(app, r.content) =>
                \A first \in {Posted(db, r).db} :
                    /\ Len(OfType(Added(first), "mention"))
                          = Cardinality(Resolving(r.content, r.user_id))
                    /\ Len(OfType(Posted(first, r).db.notifications, "mention"))
                          = Len(OfType(notifications, "mention"))
                            + 2 * Cardinality(Resolving(r.content, r.user_id))

\* one answer left two mention notifications for the same user
C15_Witness ==
    /\ last.op = "create_answer"
    /\ last.local # NULL
    /\ \E n, m \in DOMAIN notifications :
         /\ n # m
         /\ notifications[n] = notifications[m]
         /\ notifications[n].type = "mention"
         /\ notifications[n].answer_id = last.local

\* C16: accept_answer adds no notification and changes none: the notifications
\* after the request are the notifications before it, whether the request
\* succeeds, is refused or finds no such answer.
C16_AcceptNeverNotifies ==
    \A user_id \in Users, a \in AnswerIds,
       q \in IF app = FULL THEN {NULL} ELSE QuestionIds :
        accept_answer(app, db, user_id, q, a).db.notifications = notifications

\* an answer somebody else posted was just accepted; the only notification is
\* the one its posting left
C16_Witness ==
    /\ last.op = "accept_answer"
    /\ IsSuccess(last.status)
    /\ answers[last.local[2]].is_accepted
    /\ answers[last.local[2]].author_id # questions[last.local[1]].author_id
    /\ OfType(notifications, "answer") = notifications
    /\ notifications # <<>>

\* the store with no rows
Empty == [questions |-> <<>>, answers |-> <<>>, votes |-> <<>>, notifications |-> <<>>]

\* C17: on the empty store, A asks question 1, B (another user) posts answer 1
\* on it, A votes answer 1 up, A accepts answer 1.  Then the notifications are one
\* of type answer for A and one of type upvote for B, answer 1 has vote_score 1
\* and is_accepted, question 1 has accepted_answer_id 1, and the accept added no
\* notification.
C17_AskAnswerUpvoteAccept ==
    db = Empty =>
        \A A, B \in Users, content \in Thanks :
            A # B =>
                LET Q1 == create_question(app, db, A, TRUE)
                    R1 == create_answer(app, Q1.db, B, Q1.local, content)
                    upvoted == vote(app, R1.db, A, NULL, R1.local, "up")
                    accepted == accept_answer(app, upvoted.db, A,
                                              IF app = FULL THEN NULL ELSE Q1.local, R1.local)
                IN /\ accepted.db.notifications =
                         <<Notification(A, "answer", Q1.local, R1.local),
                           Notification(B, "upvote", Q1.local, R1.local)>>
                   /\ accepted.db.notifications = upvoted.db.notifications
                   /\ accepted.db.answers[R1.local].vote_score = 1
                   /\ accepted.db.answers[R1.local].is_accepted
                   /\ accepted.db.questions[Q1.local].accepted_answer_id = R1.local

\* C18: a vote request that names both a question and an answer, or neither, is
\* answered 400 and changes nothing; so every row of votes names a question or
\* an answer and never both.
C18_AmbiguousTargetRejected ==
    /\ \A r \in VoteRequests :
         (r.question_id = NULL) = (r.answer_id = NULL) =>
            \A voted \in {vote(app, db, r.user_id, r.question_id, r.answer_id, r.vote_type)} :
               /\ voted.status = "400"
               /\ voted.db = db
    /\ \A i \in DOMAIN votes : (votes[i].question_id = NULL) # (votes[i].answer_id = NULL)

\* C19: post_answer is one transaction: in no committed state is an answer stored
\* while the notification of it for the question's author is not (the answer is
\* by another user), whether the request is still running or has failed.
C19_AnswerAndNotificationsTogether ==
    \A a \in DOMAIN answers :
        questions[answers[a].question_id].author_id # answers[a].author_id =>
            \E n \in DOMAIN notifications :
                notifications[n] = Notification(questions[answers[a].question_id].author_id,
                                                "answer", answers[a].question_id, a)

\* C20: vote is one transaction: in no committed state does votes hold a row for
\* an answer while the answer's vote_score is not the count of the rows naming
\* it, whether the request is still running or not.
C20_VoteRowAndScoreTogether ==
    \A i \in DOMAIN votes :
        (votes[i].answer_id # NULL /\ votes[i].question_id = NULL) =>
            answers[votes[i].answer_id].vote_score
                = vote_count(db, "answer_id", votes[i].answer_id)

\* C21: a notification is never deleted and its user_id, type, question_id and
\* answer_id never change; a step changes at most its is_read, from FALSE to
\* TRUE, and is_read never returns to FALSE.
C21_NotificationsOnlyBecomeRead ==
    [][/\ Len(notifications') >= Len(notifications)
       /\ \A n \in DOMAIN notifications :
            /\ notifications'[n].user_id = notifications[n].user_id
            /\ notifications'[n].type = notifications[n].type
            /\ notifications'[n].question_id = notifications[n].question_id
            /\ notifications'[n].answer_id = notifications[n].answer_id
            /\ notifications[n].is_read => notifications'[n].is_read]_vars

\* a notification was read, and another was created after it and is unread
C21_Witness ==
    \E n, m \in DOMAIN notifications :
        /\ n < m
        /\ notifications[n].is_read
        /\ ~notifications[m].is_read
        /\ last.op \in {"create_answer", "vote"}

\* C22: mark_notification_read by a user who is not the notification's recipient
\* changes nothing; the listing of a user's notifications returns only
\* notifications with that user_id and changes no notification of another user.
C22_OnlyRecipientReadsAndMarks ==
    /\ \A user_id \in Users, n \in DOMAIN notifications :
         notifications[n].user_id # user_id =>
            mark_notification_read(app, db, user_id, n).db = db
    /\ \A user_id \in Users :
         \A listed \in {get_notifications(app, db, user_id)} :
            /\ \A i \in DOMAIN listed.local : notifications[listed.local[i]].user_id = user_id
            /\ Len(listed.db.notifications) = Len(notifications)
            /\ \A n \in DOMAIN notifications :
                 notifications[n].user_id # user_id =>
                    listed.db.notifications[n] = notifications[n]

\* python_full_app answered a mark_notification_read of somebody else's
\* notification (a success that marked nothing) and the notification is unread
C22_Witness ==
    /\ app = FULL
    /\ last.op = "mark_notification_read"
    /\ last.status = "200"
    /\ last.local = NULL
    /\ \E n \in DOMAIN notifications : ~notifications[n].is_read

\* the unread notifications of a user among rows
Unread(rows, user_id) == SelectSeq(rows, LAMBDA row : row.user_id = user_id /\ ~row.is_read)

\* the requests that add notifications: answers and votes up on answers
NotifyRequests ==
    {create_answer(app, db, r.user_id, r.question_id, r.content) :
        r \in [user_id : Users, question_id : DOMAIN questions, content : NotifyContents]}
    \cup {vote(app, db, r.user_id, NULL, r.answer_id, "up") :
            r \in [user_id : Users, answer_id : DOMAIN answers]}

\* C23: the unread count of a user is the number of notifications with that
\* user_id and is_read FALSE; every notification is created with is_read FALSE,
\* so a request raises a user's count by the number of notifications it adds for
\* that user: one per notification, for its recipient and nobody else.
C23_UnreadCountCountsUnread ==
    /\ \A user_id \in Users :
         get_unread_count(db, user_id).local = Len(Unread(notifications, user_id))
    /\ \A served \in NotifyRequests :
         /\ \A n \in DOMAIN Added(served.db) : Added(served.db)[n].is_read = FALSE
         /\ \A user_id \in Users :
              get_unread_count(served.db, user_id).local
                 = get_unread_count(db, user_id).local
                   + Len(SelectSeq(Added(served.db), LAMBDA row : row.user_id = user_id))

\* a user with a read and an unread notification was told a count of one
C23_Witness ==
    /\ last.op = "get_unread_count"
    /\ last.local = 1
    /\ \E n, m \in DOMAIN notifications :
         /\ notifications[n].user_id = notifications[m].user_id
         /\ notifications[n].is_read
         /\ ~notifications[m].is_read

\* C28: (python_full_app) the listing of a user's notifications marks each of
\* them read, so the user's unread count is 0 right after it, and leaves the
\* is_read of every other user's notifications alone.
C28_ListingMarksOwnRead ==
    app = FULL =>
        \A user_id \in Users :
            \A listed \in {get_notifications(app, db, user_id).db} :
                /\ get_unread_count(listed, user_id).local = 0
                /\ \A n \in DOMAIN notifications :
                     listed.notifications[n].is_read =
                        IF notifications[n].user_id = user_id THEN TRUE
                        ELSE notifications[n].is_read

\* python_full_app listed a user's notifications: they are read, and another
\* user's notification is still unread
C28_Witness ==
    /\ app = FULL
    /\ last.op = "get_notifications"
    /\ last.local # <<>>
    /\ \A i \in DOMAIN last.local : notifications[last.local[i]].is_read
    /\ \E n \in DOMAIN notifications : ~notifications[n].is_read

\* C24: when vote requests of different users for one answer interleave, once
\* every request has completed the answer's vote_score is the number of its up
\* votes minus the number of its down votes.
C24_InterleavedVotesScoreCurrent ==
    (Quiescent /\ \A i, j \in DOMAIN votes : SameVote(i, j) => i = j) =>
        \A a \in DOMAIN answers :
            answers[a].vote_score = up_votes(db, "answer_id", a) - down_votes(db, "answer_id", a)

\* C25: accept_answer interrupted before its commit persists nothing: in every
\* persisted state, a request in flight or interrupted or not, no question has
\* two accepted answers, an answer has is_accepted exactly when its question's
\* accepted_answer_id names it, and the step that interrupts a request leaves
\* questions and answers as they were.
C25_AcceptCrashAtomic ==
    /\ [](\A q \in DOMAIN questions :
            /\ Cardinality(AcceptedAnswers(q)) <= 1
            /\ \A a \in DOMAIN answers :
                 answers[a].question_id = q =>
                    (answers[a].is_accepted <=> questions[q].accepted_answer_id = a))
    /\ [][last'.status = "500" => (questions' = questions /\ answers' = answers)]_vars

\* a request to accept another answer than the accepted one was interrupted:
\* the accepted answer is still the accepted one
C25_Witness ==
    /\ last.op = "accept_answer"
    /\ last.status = "500"
    /\ last.local[3] # NULL
    /\ last.local[3] # last.local[2]
    /\ answers[last.local[3]].is_accepted
    /\ ~answers[last.local[2]].is_accepted
    /\ questions[last.local[1]].accepted_answer_id = last.local[3]

\* C26: a question's view_count is never negative and no step lowers it,
\* whatever the interleaving of the views of the question.
C26_ViewCountNeverDecreases ==
    /\ [](\A q \in DOMAIN questions : questions[q].view_count >= 0)
    /\ [][\A q \in DOMAIN questions :
            questions'[q].view_count >= questions[q].view_count]_vars

\* C27: a vote request with vote_type down, whatever it names, and a vote
\* request that names a question, whatever its vote_type, leave the
\* notifications as they were.
C27_DownAndQuestionVotesSilent ==
    \A r \in VoteRequests :
        (r.vote_type = "down" \/ r.question_id # NULL) =>
            Voted(db, r).notifications = notifications

\* the last request voted an answer down, or voted on the question, and the
\* only notification is the one the answer's posting left
C27_Witness ==
    /\ last.op = "vote"
    /\ last.status = "200"
    /\ \E i \in DOMAIN votes :
         /\ votes[i].answer_id # NULL
         /\ votes[i].question_id = NULL
         /\ votes[i].vote_type = "down"
         /\ votes[i].user_id # answers[votes[i].answer_id].author_id
    /\ \E i \in DOMAIN votes : votes[i].question_id # NULL /\ votes[i].answer_id = NULL
    /\ Len(notifications) = 1
    /\ notifications[1].type = "answer"

\* C30: on a vote request that names one existing target, a question or an
\* answer, the three backends' handlers leave the same rows of votes and the
\* same vote_score on every question and answer, from any store (they may
\* differ in the notifications); a sequence of such requests run from one store
\* therefore keeps the three in step.
C30_VoteHandlersEquivalent ==
    \A r \in VoteRequests :
        (r.question_id = NULL) # (r.answer_id = NULL) =>
            \A d1 \in {vote(app, db, r.user_id, r.question_id, r.answer_id, r.vote_type).db} :
                \A ap \in Apps \ {app} :
                    \A d2 \in {vote(ap, db, r.user_id, r.question_id, r.answer_id, r.vote_type).db} :
                        /\ d1.votes = d2.votes
                        /\ d1.questions = d2.questions
                        /\ d1.answers = d2.answers

\* votes on the question and on the answer have been served, one of them down
C30_Witness ==
    /\ last.op = "vote"
    /\ last.status = "200"
    /\ \E i, j \in DOMAIN votes :
         /\ votes[i].question_id # NULL /\ votes[i].answer_id = NULL
         /\ votes[j].question_id = NULL /\ votes[j].answer_id # NULL
         /\ votes[i].vote_type # votes[j].vote_type
         /\ questions[votes[i].question_id].vote_score # 0
         /\ answers[votes[j].answer_id].vote_score # 0

\* C29: no request un-accepts: a question whose accepted_answer_id is set keeps
\* it set in every later state, and with accept_answer requests served one at a
\* time the question then has exactly one accepted answer.
C29_NoUnaccept ==
    [][\A q \in DOMAIN questions :
          questions[q].accepted_answer_id # NULL =>
             /\ questions'[q].accepted_answer_id # NULL
             /\ Cardinality({a \in DOMAIN answers' :
                                /\ answers'[a].question_id = q
                                /\ answers'[a].is_accepted}) = 1]_vars


====
